---------------------------- MODULE Spec2Model ----------------------------
(***************************************************************************)
(* A model of src/app.py: the LINE bot's non-repeating content sampler      *)
(* (ContentManager.get_random_index), its per-user quiz sessions            *)
(* (user_game_state), pending stories (user_story_state) and the dispatcher *)
(* handle_message.                                                          *)
(*                                                                          *)
(* Arabic strings of the source are written in ASCII transliteration:       *)
(*   labels   "alef" = U+0623, "ba" = U+0628, "jim" = U+062C                *)
(*   commands "sual", "tahaddi", "i3tiraf", "akthar", "shi3r", "qasida",    *)
(*            "hikma", "qissa" are the eight keys of COMMANDS_MAP.          *)
(***************************************************************************)
EXTENDS Naturals, Integers, Sequences, FiniteSets, TLC

VARIABLES
    content_files,      \* ContentManager.content_files: command -> list of lines
    poems_list,         \* ContentManager.poems_list
    arab_poets,         \* ContentManager.arab_poets
    quotes_list,        \* ContentManager.quotes_list
    stories_list,       \* ContentManager.stories_list: list of [part2 : BOOLEAN]
    games_list,         \* ContentManager.games_list: list of question counts
    detailed_results,   \* ContentManager.detailed_results as loaded
    used_indices,       \* ContentManager.used_indices: command -> list of indices
    user_game_state,    \* user -> session record, or NoSession
    user_story_state,   \* user -> pending story index, or NoStory
    content_lock,       \* holder of content_lock, or NoThread
    pc,                 \* per request-handler thread: position in the code
    local,              \* per request-handler thread: its local variables
    detached,           \* a session dict removed from the map but still referenced
    last,               \* the event handled last, with what it replied
    cycle,              \* per command: indices returned in the current block of n calls
    served,             \* per command: indices returned since the cursor was last emptied
    score,              \* a call of calculate_result: arguments and outcome
    resolve,            \* a call of find_command: argument and outcome
    user_riddle_state,  \* user -> pending riddle index, or NoRiddle
    history             \* per command: the sampler's calls in order, each with
                        \* what it returned and the cursor it left

vars == <<content_files, poems_list, arab_poets, quotes_list, stories_list,
          games_list, detailed_results, used_indices, user_game_state,
          user_story_state, content_lock, pc, local, detached, last,
          cycle, served, score, resolve, user_riddle_state, history>>

---------------------------------------------------------------------------
(* Bounds of the model *)

MaxItems == 3
MaxOverrun == 0
MaxAnswers == 3
MaxExtraCalls == 1

(* The request-handler threads and the users of the model *)
Threads == {"t1", "t2"}
Users == {"u1", "u2"}

NoThread == "none"
NoSession == [game_index |-> -1, question_index |-> 0, answers |-> <<>>]
NoStory == -1
NoRiddle == -1

(* no call of calculate_result, none of find_command, no pending riddle *)
NoScore == [answers |-> <<>>, game_index |-> 0, raised |-> FALSE, result |-> <<>>]

NoResolve == [text |-> "", result |-> <<>>]

NoRiddles == [u \in Users |-> NoRiddle]

AuxIdle ==
    /\ score = NoScore
    /\ resolve = NoResolve
    /\ user_riddle_state = NoRiddles

AuxFrame == UNCHANGED <<score, resolve, user_riddle_state>>

---------------------------------------------------------------------------
(* Sequences as Python lists *)

Range(s) == {s[i] : i \in 1..Len(s)}

NoDup(s) == \A i, j \in 1..Len(s) : i # j => s[i] # s[j]

Items(n) == [i \in 1..n |-> i - 1]

---------------------------------------------------------------------------
(* COMMANDS_MAP and the keys of used_indices *)

TextCommands == {"sual", "tahaddi", "i3tiraf", "akthar"}

Commands == TextCommands \cup {"shi3r", "qasida", "hikma", "qissa"}

(* The list a command draws from: get_content / get_poem / get_arab_poem /
   get_quote / get_story each pass len(list) to get_random_index. *)
ListOf(command) ==
    CASE command \in TextCommands -> content_files[command]
      [] command = "shi3r" -> poems_list
      [] command = "qasida" -> arab_poets
      [] command = "hikma" -> quotes_list
      [] command = "qissa" -> stories_list

---------------------------------------------------------------------------
(* ContentManager.get_random_index, statement by statement *)

(* line 116: if len(self.used_indices[command]) >= max_length *)
NeedsResetOffByOne(used, max_length) == Len(used) > max_length

NeedsReset(used, max_length) == Len(used) >= max_length

(* lines 116-117 *)
AfterReset(used, max_length) ==
    IF NeedsReset(used, max_length) THEN <<>> ELSE used

(* the candidates without the filter `if i not in used` *)
AvailableIndicesAll(used, max_length) == 0..(max_length - 1)

(* lines 119-120: [i for i in range(max_length) if i not in used] *)
AvailableIndices(used, max_length) ==
    {i \in 0..(max_length - 1) : i \notin Range(used)}

(* line 127: random.randint(0, max_length - 1) raises ValueError on an
   empty range, otherwise returns any index of the range. *)
RandintRaises(max_length) == max_length - 1 < 0


---------------------------------------------------------------------------
(* Loading (ContentManager.initialize): what the lists look like after it *)

(* load_json_file, lines 67-79. A file is missing, unreadable (open or
   json.load raises) or holds data; the six files initialize() loads all
   have names that end in "s.json". *)
JsonFiles == {"poems.json", "arab_poets.json", "quotes.json", "stories.json",
              "detailed_results.json", "personality_games.json"}

EndsWithSJson(filename) == filename \in JsonFiles

UnusableFiles == {[state |-> "missing"], [state |-> "unreadable"]}

load_json_file(filename, file) ==
    IF file \in UnusableFiles
    THEN IF EndsWithSJson(filename)
         THEN [kind |-> "list", table |-> {}]
         ELSE [kind |-> "dict", table |-> {}]
    ELSE file.data

(* A stories.json of n stories; the odd ones carry a 'part2'. *)
Stories(n) == [i \in 1..n |-> [part2 |-> (i % 2 = 1)]]

(* used_indices after initialize(): every key present, every list empty *)
EmptyCursors == [c \in Commands |-> <<>>]

---------------------------------------------------------------------------
(* Specification SamplerSpec: request-handler threads calling               *)
(* get_random_index(command, len(list)) directly, under content_lock.       *)

(* The commands the threads of SamplerSpec call the sampler with: one text
   category and one JSON category. *)
CallCommands == {"sual", "qissa"}

IdleLocal == [command |-> "", max_length |-> 0, available |-> {},
              raised |-> FALSE, index |-> -1]

NoCall == [thread |-> NoThread, command |-> "", max_length |-> 0,
           raised |-> FALSE, index |-> -1]

SamplerInit ==
    /\ \E n \in 0..MaxItems :
         content_files = [c \in TextCommands |->
                             IF c = "sual" THEN Items(n) ELSE <<>>]
    /\ \E n \in 0..MaxItems : stories_list = Stories(n)
    /\ poems_list = <<>>
    /\ arab_poets = <<>>
    /\ quotes_list = <<>>
    /\ games_list = <<>>
    /\ detailed_results = [kind |-> "list", table |-> {}]
    /\ used_indices = EmptyCursors
    /\ user_game_state = [u \in Users |-> NoSession]
    /\ user_story_state = [u \in Users |-> NoStory]
    /\ content_lock = NoThread
    /\ pc = [t \in Threads |-> "idle"]
    /\ local = [t \in Threads |-> IdleLocal]
    /\ detached = [u \in Users |-> NoSession]
    /\ last = NoCall
    /\ cycle = EmptyCursors
    /\ served = EmptyCursors
    /\ history = EmptyCursors
    /\ AuxIdle

SamplerFrame ==
    UNCHANGED <<content_files, poems_list, arab_poets, quotes_list,
                stories_list, games_list, detailed_results, user_game_state,
                user_story_state, detached, score, resolve, user_riddle_state,
                history>>

(* line 115: `with content_lock` is entered only while no thread holds it *)
CanAcquireNoLock == TRUE

CanAcquire == content_lock = NoThread

(* a handler calls get_random_index(command, max_length) *)
Call(t, c) ==
    /\ pc[t] = "idle"
    /\ pc' = [pc EXCEPT ![t] = "l115"]
    /\ local' = [local EXCEPT ![t] =
                    [IdleLocal EXCEPT !.command = c,
                                      !.max_length = Len(ListOf(c))]]
    /\ UNCHANGED <<used_indices, content_lock, last, cycle, served>>
    /\ SamplerFrame

(* line 115 *)
Acquire(t) ==
    /\ pc[t] = "l115"
    /\ CanAcquire
    /\ content_lock' = t
    /\ pc' = [pc EXCEPT ![t] = "l116"]
    /\ UNCHANGED <<used_indices, local, last, cycle, served>>
    /\ SamplerFrame

(* lines 116-117 *)
ResetCheck(t) ==
    LET c == local[t].command
        n == local[t].max_length
    IN  /\ pc[t] = "l116"
        /\ used_indices' = [used_indices EXCEPT ![c] = AfterReset(@, n)]
        /\ served' = [served EXCEPT ![c] =
                         IF NeedsReset(used_indices[c], n) THEN <<>> ELSE @]
        /\ pc' = [pc EXCEPT ![t] = "l119"]
        /\ UNCHANGED <<content_lock, local, last, cycle>>
        /\ SamplerFrame

(* lines 119-120 *)
ComputeAvailable(t) ==
    LET c == local[t].command
        n == local[t].max_length
    IN  /\ pc[t] = "l119"
        /\ local' = [local EXCEPT ![t].available =
                        AvailableIndices(used_indices[c], n)]
        /\ pc' = [pc EXCEPT ![t] = "l122"]
        /\ UNCHANGED <<used_indices, content_lock, last, cycle, served>>
        /\ SamplerFrame

(* lines 122-125 without the append of line 124 *)
ChooseAvailableNoAppend(t) ==
    LET c == local[t].command
    IN  /\ pc[t] = "l122"
        /\ local[t].available # {}
        /\ \E i \in local[t].available :
             /\ served' = [served EXCEPT ![c] = Append(@, i)]
             /\ local' = [local EXCEPT ![t].index = i]
        /\ pc' = [pc EXCEPT ![t] = "return"]
        /\ UNCHANGED <<used_indices, content_lock, last, cycle>>
        /\ SamplerFrame

(* lines 122-125: random.choice(available_indices), append, return *)
ChooseAvailable(t) ==
    LET c == local[t].command
    IN  /\ pc[t] = "l122"
        /\ local[t].available # {}
        /\ \E i \in local[t].available :
             /\ used_indices' = [used_indices EXCEPT ![c] = Append(@, i)]
             /\ served' = [served EXCEPT ![c] = Append(@, i)]
             /\ local' = [local EXCEPT ![t].index = i]
        /\ pc' = [pc EXCEPT ![t] = "return"]
        /\ UNCHANGED <<content_lock, last, cycle>>
        /\ SamplerFrame

(* line 127: the unrecorded fallback, random.randint(0, max_length - 1) *)
Fallback(t) ==
    LET c == local[t].command
        n == local[t].max_length
    IN  /\ pc[t] = "l122"
        /\ local[t].available = {}
        /\ IF RandintRaises(n)
             THEN /\ local' = [local EXCEPT ![t].raised = TRUE]
                  /\ served' = served
             ELSE \E i \in 0..(n - 1) :
                    /\ local' = [local EXCEPT ![t].index = i]
                    /\ served' = [served EXCEPT ![c] = Append(@, i)]
        /\ pc' = [pc EXCEPT ![t] = "return"]
        /\ UNCHANGED <<used_indices, content_lock, last, cycle>>
        /\ SamplerFrame

(* leaving the `with` block, by return or by exception, releases the lock *)
Return(t) ==
    LET c == local[t].command
        n == local[t].max_length
        i == local[t].index
    IN  /\ pc[t] = "return"
        /\ content_lock' = IF content_lock = t THEN NoThread ELSE content_lock
        /\ last' = [thread |-> t, command |-> c, max_length |-> n,
                    raised |-> local[t].raised, index |-> i]
        /\ cycle' = [cycle EXCEPT ![c] =
                        IF local[t].raised THEN @
                        ELSE IF Len(@) >= n THEN <<i>> ELSE Append(@, i)]
        /\ pc' = [pc EXCEPT ![t] = "idle"]
        /\ local' = [local EXCEPT ![t] = IdleLocal]
        /\ UNCHANGED <<used_indices, served>>
        /\ SamplerFrame

SamplerNext ==
    \E t \in Threads :
        \/ \E c \in CallCommands : Call(t, c)
        \/ Acquire(t)
        \/ ResetCheck(t)
        \/ ComputeAvailable(t)
        \/ ChooseAvailable(t)
        \/ Fallback(t)
        \/ Return(t)

SamplerSpec == SamplerInit /\ [][SamplerNext]_vars

---------------------------------------------------------------------------
(* Properties of the sampler, checked under SamplerSpec *)

InCritical(t) == pc[t] \in {"l116", "l119", "l122", "return"}

(* C1: for every category of size n > 0, the calls numbered k*n+1 ..
   (k+1)*n return pairwise distinct indices of [0, n), and a complete block
   of n calls returns exactly the set [0, n): each cycle is a permutation. *)
C1_CyclePermutation ==
    \A c \in Commands :
        LET n == Len(ListOf(c))
        IN  n > 0 =>
              /\ NoDup(cycle[c])
              /\ Range(cycle[c]) \subseteq 0..(n - 1)
              /\ Len(cycle[c]) <= n
              /\ (Len(cycle[c]) = n => Range(cycle[c]) = 0..(n - 1))

(* a category of three items whose block of three calls is complete, the
   last call having returned *)
C1_Witness ==
    /\ last.thread # NoThread
    /\ last.max_length = 3
    /\ Len(cycle[last.command]) = 3
    /\ cycle[last.command][3] = last.index

(* C6: get_random_index(command, 0) does not raise: it returns a value, and
   the command's cursor is left empty. *)
C6_SizeZeroReturnsSentinel ==
    (last.thread # NoThread /\ last.max_length = 0) =>
        /\ ~last.raised
        /\ used_indices[last.command] = <<>>

(* C9: whatever the interleaving of the threads' calls, no index of a
   category of size n >= 2 is returned twice between two resets of its
   cursor, and at most one thread is between the reset check and the
   return. *)
C9_NoRepeatUnderConcurrency ==
    /\ \A c \in Commands :
         Len(ListOf(c)) >= 2 => NoDup(served[c])
    /\ \A t1, t2 \in Threads :
         (InCritical(t1) /\ InCritical(t2)) => t1 = t2

(* one thread is choosing among the candidates of a category of size >= 2
   that has already served an index, while the other waits for the lock
   with a call on the same category *)
C9_Witness ==
    \E t1, t2 \in Threads :
        /\ pc[t1] = "l122"
        /\ pc[t2] = "l115"
        /\ local[t1].command = local[t2].command
        /\ local[t1].max_length >= 2
        /\ Len(served[local[t1].command]) >= 1

(* C24: in every state, statement by statement and whatever the
   interleaving, the cursor of a category of size n > 0 has no duplicate,
   holds indices of [0, n) only, at most n of them, and is exactly the
   list of the indices returned since it was last emptied; and a call on
   such a category never finds the list of candidates empty, so line 127
   is not reached. *)
C24_CursorInvariant ==
    /\ \A c \in Commands :
         LET n == Len(ListOf(c))
         IN  n > 0 =>
               /\ NoDup(used_indices[c])
               /\ Range(used_indices[c]) \subseteq 0..(n - 1)
               /\ Len(used_indices[c]) <= n
               /\ served[c] = used_indices[c]
    /\ \A t \in Threads :
         (pc[t] = "l122" /\ local[t].max_length > 0) =>
             local[t].available # {}

(* a call on a category of three items has just emptied the full cursor
   and found all three indices candidates again *)
C24_Witness ==
    \E t \in Threads :
        /\ pc[t] = "l122"
        /\ local[t].max_length = 3
        /\ Len(cycle[local[t].command]) = 3
        /\ used_indices[local[t].command] = <<>>
        /\ local[t].available = {0, 1, 2}

---------------------------------------------------------------------------
(* Texts of inbound messages, and the conversions applied to them *)

(* The texts of the inbound events *)
Texts == {"HELP ", "sual", "shi3r", "qissa", "takmila", "game",
          "1", "2", "3", "4", "9", "sup2", "A", "jim", "x"}

(* str.strip() on the texts of the model *)
Strip(text) ==
    CASE text = "HELP " -> "HELP"
      [] text = "help " -> "help"
      [] text = " qissa " -> "qissa"
      [] text = "sual " -> "sual"
      [] text = " " -> ""
      [] OTHER -> text

(* str.lower() on the texts of the model *)
Lower(text) ==
    CASE text = "HELP" -> "help"
      [] text = "HELP " -> "help "
      [] text = "Game" -> "game"
      [] text = "A" -> "a"
      [] OTHER -> text

(* str.isdigit() and int() on the texts of the model; "sup2" is U+00B2,
   superscript two, for which isdigit() is True and int() raises
   ValueError *)
DigitTexts == {"0", "1", "2", "3", "4", "9", "sup2"}

IntRaises(text) == text = "sup2"

IsDigit(text) == text \in DigitTexts

IntOf(text) ==
    CASE text = "0" -> 0
      [] text = "1" -> 1
      [] text = "2" -> 2
      [] text = "3" -> 3
      [] text = "4" -> 4
      [] text = "9" -> 9

(* COMMANDS_MAP, lines 179-188, in its insertion order *)
CommandOrder == <<"sual", "tahaddi", "i3tiraf", "akthar",
                  "shi3r", "qasida", "hikma", "qissa">>

COMMANDS_MAP ==
    [c \in Commands |->
        CASE c = "sual" -> {"sual", "suwal", "is2alh", "as2ila", "is2al"}
          [] c = "tahaddi" -> {"tahaddi", "tahaddiyat", "tahadd"}
          [] c = "i3tiraf" -> {"i3tiraf", "i3tirafat"}
          [] c = "akthar" -> {"akthar", "aktharr", "ziyada"}
          [] c = "shi3r" -> {"shi3r", "abyat"}
          [] c = "qasida" -> {"qasida", "qasidah", "sha3ir", "shu3ara"}
          [] c = "hikma" -> {"hikma", "hikam", "iqtibas", "iqtibasat"}
          [] c = "qissa" -> {"qissa", "qissah", "hikaya"}]

NoCommand == ""

(* find_command without the .strip() of line 192 *)
find_commandNoStrip(text) ==
    LET text_lower == Lower(text)
        hits == {k \in 1..Len(CommandOrder) :
                    text_lower \in {Lower(v) : v \in COMMANDS_MAP[CommandOrder[k]]}}
    IN  IF hits = {} THEN NoCommand
        ELSE CommandOrder[CHOOSE k \in hits : \A j \in hits : k <= j]

(* find_command, lines 190-196: the first key, in order, one of whose
   variants equals the lower-cased, stripped text; None otherwise *)
find_command(text) ==
    LET text_lower == Strip(Lower(text))
        hits == {k \in 1..Len(CommandOrder) :
                    text_lower \in {Lower(v) : v \in COMMANDS_MAP[CommandOrder[k]]}}
    IN  IF hits = {} THEN NoCommand
        ELSE CommandOrder[CHOOSE k \in hits : \A j \in hits : k <= j]

(* the word lists of handle_message, lines 595, 610, 615 *)
HelpWords == {"musa3ada", "help", "bidaya", "start", "qa2ima", "menu"}

ContinueWords == {"kammil", "kammil alqissa", "altakmila", "istamirr", "takmila"}

GamesWords == {"lu3bah", "lu3ba", "al3ab", "al3abb", "game"}

(* the canonical labels, and answer_map of handle_game_answer, line 814 *)
Labels == <<"alef", "ba", "jim">>

LabelSet == Range(Labels)

answer_map(key) ==
    CASE key \in {"1", "a"} -> "alef"
      [] key \in {"2", "b"} -> "ba"
      [] key \in {"3", "c"} -> "jim"
      [] OTHER -> ""

(* line 815: answer_map.get(text.lower(), text) *)
NormalizeAnswer(text) ==
    IF answer_map(Lower(text)) # "" THEN answer_map(Lower(text)) ELSE text

HasSession(u) == user_game_state[u] # NoSession

(* handle_message, lines 595-632: the tests that depend on the text
   alone, in the order the code makes them; "text" when none applies *)
TextRoute(raw) ==
    LET text == Strip(raw)
        text_lower == Lower(text)
    IN  IF text_lower \in HelpWords THEN "help"
        ELSE IF find_command(text) # NoCommand THEN "content"
        ELSE IF text_lower \in ContinueWords THEN "continue"
        ELSE IF text_lower \in GamesWords THEN "games"
        ELSE IF IsDigit(text) THEN "selection"
        ELSE "text"

(* TextRoute and find_command on the texts of the model, as tables *)
TextRoutes == [raw \in Texts |-> TextRoute(raw)]

CommandOf == [raw \in Texts |-> find_command(Strip(raw))]

(* handle_message, lines 595-643: the branch an event takes; the test
   `user_id in user_game_state` (line 635) comes after all the others *)
Route(u, raw) ==
    IF TextRoutes[raw] # "text" THEN TextRoutes[raw]
    ELSE IF HasSession(u) THEN "answer"
    ELSE "default"

---------------------------------------------------------------------------
(* Replies: what line_bot_api.reply_message is called with, and whether the
   call returned (ok) or raised *)

Msg(kind) == [kind |-> kind, ok |-> TRUE, label |-> "", fallback |-> FALSE,
              index |-> 0, total |-> 0, count |-> <<0, 0, 0>>]

(* one call of reply_message; fails = the call raises *)
Reply(msg, fails) == [msg EXCEPT !.ok = ~fails]

(* an except clause that logs the exception and sends nothing *)
OuterHandlerNoReply(sofar) == {sofar}

(* handle_message, lines 645-653: any exception is answered with the
   generic retry message, whose own failure is swallowed; the outcomes are
   the sequences of calls made, that call returning or raising *)
OuterHandler(sofar) ==
    {Append(sofar, Reply(Msg("error"), fails)) : fails \in BOOLEAN}

(* a handler that does not return after its reply: the default reply of
   lines 640-643 follows *)
DirectNoReturn(msg) ==
    {<<Reply(msg, FALSE), Reply(Msg("default"), FALSE)>>}
    \cup OuterHandler(<<Reply(msg, TRUE)>>)

(* a reply made directly under handle_message's try: it returns, or it
   raises and the exception reaches handle_message's handler *)
Direct(msg) ==
    {<<Reply(msg, FALSE)>>} \cup OuterHandler(<<Reply(msg, TRUE)>>)

(* handle_content_command, lines 748-753: an exception under its try is
   answered by the except clause's own reply, whose failure reaches
   handle_message's handler *)
InnerHandler(sofar) ==
    {Append(sofar, Reply(Msg("content_error"), FALSE))}
    \cup OuterHandler(Append(sofar, Reply(Msg("content_error"), TRUE)))

(* a reply made under handle_content_command's try, lines 658-746 *)
ViaContent(msg) ==
    {<<Reply(msg, FALSE)>>} \cup InnerHandler(<<Reply(msg, TRUE)>>)

---------------------------------------------------------------------------
(* calculate_result, lines 897-913 *)

CountOf(answers, l) == Cardinality({i \in 1..Len(answers) : answers[i] = l})

(* lines 899-902 *)
Tally(answers) == [k \in 1..3 |-> CountOf(answers, Labels[k])]

(* max() keeping the last key whose count is the maximum *)
MostCommonLast(answers) ==
    LET count == Tally(answers)
        best == {k \in 1..3 : \A j \in 1..3 : count[k] >= count[j]}
    IN  Labels[CHOOSE k \in best : \A j \in best : k >= j]

(* line 904: max(count, key=count.get) returns the first key, in the
   dict's insertion order, whose count is the maximum *)
MostCommon(answers) ==
    LET count == Tally(answers)
        best == {k \in 1..3 : \A j \in 1..3 : count[k] >= count[j]}
    IN  Labels[CHOOSE k \in best : \A j \in best : k <= j]

(* line 906: detailed_results.get(...) exists only on a dict; a missing or
   unreadable detailed_results.json was loaded as the list [] (line 71, 79) *)
ResultRaises == detailed_results.kind # "dict"

(* lines 905-913 *)
calculate_result(answers, game_index) ==
    LET most_common == MostCommon(answers)
    IN  [Msg("result") EXCEPT
            !.label = most_common,
            !.fallback = (<<game_index + 1, most_common>> \notin detailed_results.table),
            !.count = Tally(answers)]

---------------------------------------------------------------------------
(* The sampler as one call, for the handlers that run it to completion *)

(* get_random_index without the append of line 124 *)
SamplerOutcomesNoAppend(used, max_length) ==
    LET cleared == AfterReset(used, max_length)
        available == AvailableIndices(cleared, max_length)
    IN  IF available # {}
          THEN {[raised |-> FALSE, index |-> i, used |-> cleared] :
                    i \in available}
        ELSE IF RandintRaises(max_length)
          THEN {[raised |-> TRUE, index |-> -1, used |-> cleared]}
        ELSE {[raised |-> FALSE, index |-> i, used |-> cleared] :
                    i \in 0..(max_length - 1)}

SamplerOutcomes(used, max_length) ==
    LET cleared == AfterReset(used, max_length)
        available == AvailableIndices(cleared, max_length)
    IN  IF available # {}
          THEN {[raised |-> FALSE, index |-> i, used |-> Append(cleared, i)] :
                    i \in available}
        ELSE IF RandintRaises(max_length)
          THEN {[raised |-> TRUE, index |-> -1, used |-> cleared]}
        ELSE {[raised |-> FALSE, index |-> i, used |-> cleared] :
                    i \in 0..(max_length - 1)}

---------------------------------------------------------------------------
(* Specification HistorySpec: get_random_index called again and again on   *)
(* the two categories, each call as a whole (the body is under             *)
(* content_lock), from empty cursors; every call is recorded with the      *)
(* index it returned, whether it emptied the cursor (line 117) and the     *)
(* cursor it left. Each category is called one full cycle and              *)
(* 1 + MaxExtraCalls times more.                                           *)

HistoryInit == SamplerInit

Sample(c) ==
    LET n == Len(ListOf(c))
    IN  /\ Len(history[c]) < n + 1 + MaxExtraCalls
        /\ \E o \in SamplerOutcomes(used_indices[c], n) :
              /\ used_indices' = [used_indices EXCEPT ![c] = o.used]
              /\ history' =
                    IF o.raised THEN history
                    ELSE [history EXCEPT ![c] = Append(@,
                            [index |-> o.index,
                             reset |-> NeedsReset(used_indices[c], n),
                             cursor |-> o.used])]
        /\ UNCHANGED <<last, content_files, poems_list, arab_poets, quotes_list,
                       stories_list, games_list, detailed_results,
                       user_game_state, user_story_state, content_lock, pc,
                       local, detached, cycle, served, score, resolve,
                       user_riddle_state>>

HistoryNext == \E c \in CallCommands : Sample(c)

HistorySpec == HistoryInit /\ [][HistoryNext]_vars

(* C21: for a category of size n > 0 called from an empty cursor, among
   the first n+1 results exactly one value occurs twice and its second
   occurrence is result n+1; the first n results are the n indices; and
   call n+1 leaves the cursor holding the index it returned and nothing
   else. *)
C21_FirstRepeatAfterFullCycle ==
    \A c \in Commands :
        LET n == Len(ListOf(c))
            r(k) == history[c][k].index
        IN  (n > 0 /\ Len(history[c]) >= n + 1) =>
              /\ {k \in 1..(n + 1) : \E j \in 1..(k - 1) : r(j) = r(k)}
                    = {n + 1}
              /\ Cardinality({j \in 1..n : r(j) = r(n + 1)}) = 1
              /\ {r(k) : k \in 1..n} = 0..(n - 1)
              /\ history[c][n + 1].cursor = <<r(n + 1)>>

(* C22, as claimed: for a category of size n >= 2, no two consecutive
   calls return the same index, the last call of a cycle and the first of
   the next included. *)
C22_NoImmediateRepeat ==
    \A c \in Commands :
        Len(ListOf(c)) >= 2 =>
            \A k \in 1..(Len(history[c]) - 1) :
                history[c][k].index # history[c][k + 1].index

(* C22, amended: for a category of size n >= 2, two consecutive calls
   return the same index only when the second call found the cursor full
   and emptied it, that is when it is the first call of a new cycle;
   within a cycle no two consecutive calls return the same index. *)
C22_NoImmediateRepeatWithinCycle ==
    \A c \in Commands :
        Len(ListOf(c)) >= 2 =>
            \A k \in 1..(Len(history[c]) - 1) :
                history[c][k].index = history[c][k + 1].index
                    => history[c][k + 1].reset

(* three items: the call that opens the second cycle returned what the
   call before it, the last of the first cycle, had *)
C22_Witness ==
    \E c \in Commands :
        /\ Len(ListOf(c)) = 3
        /\ Len(history[c]) >= 4
        /\ history[c][4].reset
        /\ history[c][4].index = history[c][3].index

(* three items: the fourth call returned what the first call had *)
C21_Witness ==
    \E c \in Commands :
        /\ Len(ListOf(c)) = 3
        /\ Len(history[c]) = 4
        /\ history[c][4].index = history[c][1].index
        /\ used_indices[c] = <<history[c][1].index>>

---------------------------------------------------------------------------
(* Specification Spec: message events handled one at a time by              *)
(* handle_message, each event to completion.                                *)

(* detailed_results as load_json_file leaves it: the list [] when the file
   is missing or unreadable (its name ends in "s.json"), else the parsed
   dict, given as the set of (game number, label) pairs it has a text for *)
ResultsMissing ==
    load_json_file("detailed_results.json", [state |-> "missing"])

ResultsFiles ==
    {ResultsMissing,
     [kind |-> "dict", table |-> {<<1, "alef">>, <<1, "ba">>}]}

(* What initialize() may have loaded: the number of lines of questions.txt,
   of stories of stories.json, the question counts of the games of
   personality_games.json, and detailed_results *)
Deployments ==
    {[sual |-> 0, stories |-> 0, games |-> <<2, 1>>, results |-> r] :
        r \in ResultsFiles}
    \cup {[sual |-> 2, stories |-> 2, games |-> <<>>, results |-> ResultsMissing],
          [sual |-> 0, stories |-> 0, games |-> <<1, 1, 1, 1>>,
           results |-> [kind |-> "dict", table |-> {}]],
          [sual |-> 0, stories |-> 1, games |-> <<1>>,
           results |-> [kind |-> "dict", table |-> {}]]}

NoEvent == [user |-> "", text |-> "", route |-> "", pre |-> NoSession,
            replies |-> <<>>]

Init ==
    /\ \E d \in Deployments :
         /\ content_files = [c \in TextCommands |->
                                IF c = "sual" THEN Items(d.sual) ELSE <<>>]
         /\ stories_list = Stories(d.stories)
         /\ games_list = d.games
         /\ detailed_results = d.results
    /\ poems_list = <<>>
    /\ arab_poets = <<>>
    /\ quotes_list = <<>>
    /\ used_indices = EmptyCursors
    /\ user_game_state = [u \in Users |-> NoSession]
    /\ user_story_state = [u \in Users |-> NoStory]
    /\ content_lock = NoThread
    /\ pc = [t \in Threads |-> "idle"]
    /\ local = [t \in Threads |-> IdleLocal]
    /\ detached = [u \in Users |-> NoSession]
    /\ last = NoEvent
    /\ cycle = EmptyCursors
    /\ served = EmptyCursors
    /\ history = EmptyCursors
    /\ AuxIdle

Loaded == <<content_files, poems_list, arab_poets, quotes_list, stories_list,
            games_list, detailed_results>>

HandlerFrame == UNCHANGED <<Loaded, content_lock, pc, local, detached,
                            cycle, served, score, resolve, user_riddle_state,
                            history>>

Event(u, raw, replies) ==
    [user |-> u, text |-> raw, route |-> Route(u, raw),
     pre |-> user_game_state[u], replies |-> replies]

(* the help branch also dropping the user's quiz session *)
HelpResetsSession(u, raw) ==
    /\ Route(u, raw) = "help"
    /\ \E replies \in Direct(Msg("welcome")) :
         last' = Event(u, raw, replies)
    /\ user_game_state' = [user_game_state EXCEPT ![u] = NoSession]
    /\ UNCHANGED <<used_indices, user_story_state>>
    /\ HandlerFrame

(* lines 595-601 *)
Help(u, raw) ==
    /\ Route(u, raw) = "help"
    /\ \E replies \in Direct(Msg("welcome")) :
         last' = Event(u, raw, replies)
    /\ UNCHANGED <<used_indices, user_game_state, user_story_state>>
    /\ HandlerFrame

(* handle_content_command with getters that call the sampler without
   testing the list for emptiness first *)
ContentCommandNoEmptyTest(u, raw) ==
    LET command == CommandOf[raw]
        n == Len(ListOf(command))
    IN  /\ Route(u, raw) = "content"
        /\ \E o \in SamplerOutcomes(used_indices[command], n) :
              /\ used_indices' = [used_indices EXCEPT ![command] = o.used]
              /\ IF o.raised
                   THEN /\ \E replies \in InnerHandler(<<>>) :
                              last' = Event(u, raw, replies)
                        /\ UNCHANGED user_story_state
                   ELSE /\ \E replies \in
                                ViaContent([Msg(IF command = "qissa"
                                                THEN "story" ELSE "content")
                                             EXCEPT !.index = o.index]) :
                              last' = Event(u, raw, replies)
                        /\ user_story_state' =
                              IF command = "qissa"
                              THEN [user_story_state EXCEPT ![u] = o.index]
                              ELSE user_story_state
        /\ UNCHANGED user_game_state
        /\ HandlerFrame

(* lines 604-607 and handle_content_command, lines 655-753 *)
ContentCommand(u, raw) ==
    LET command == CommandOf[raw]
        n == Len(ListOf(command))
    IN  /\ Route(u, raw) = "content"
        /\ IF n = 0
             THEN \* get_* returned None: the 'not available' reply
                  /\ \E replies \in ViaContent(Msg("na")) :
                        last' = Event(u, raw, replies)
                  /\ UNCHANGED <<used_indices, user_story_state>>
             ELSE \E o \in SamplerOutcomes(used_indices[command], n) :
                  /\ used_indices' = [used_indices EXCEPT ![command] = o.used]
                  /\ IF o.raised
                       THEN /\ \E replies \in InnerHandler(<<>>) :
                                  last' = Event(u, raw, replies)
                            /\ UNCHANGED user_story_state
                       ELSE /\ \E replies \in
                                    ViaContent([Msg(IF command = "qissa"
                                                    THEN "story" ELSE "content")
                                                 EXCEPT !.index = o.index]) :
                                  last' = Event(u, raw, replies)
                            /\ user_story_state' =
                                  IF command = "qissa"   \* line 713
                                  THEN [user_story_state EXCEPT ![u] = o.index]
                                  ELSE user_story_state
        /\ UNCHANGED user_game_state
        /\ HandlerFrame

(* handle_story_continuation reading the user's entry without removing
   it *)
StoryContinuationKeepsPending(u, raw) ==
    /\ Route(u, raw) = "continue"
    /\ IF user_story_state[u] # NoStory
         THEN LET story == stories_list[user_story_state[u] + 1]
              IN  \E replies \in Direct(Msg(IF story.part2 THEN "continuation"
                                             ELSE "no_continuation")) :
                        last' = Event(u, raw, replies)
         ELSE \E replies \in Direct(Msg("no_story")) :
                    last' = Event(u, raw, replies)
    /\ UNCHANGED <<used_indices, user_game_state, user_story_state>>
    /\ HandlerFrame

(* handle_story_continuation emptying user_story_state instead of popping
   the user's entry *)
StoryContinuationClearsAll(u, raw) ==
    /\ Route(u, raw) = "continue"
    /\ IF user_story_state[u] # NoStory
         THEN LET story == stories_list[user_story_state[u] + 1]
              IN  /\ user_story_state' = [v \in Users |-> NoStory]
                  /\ \E replies \in Direct(Msg(IF story.part2 THEN "continuation"
                                               ELSE "no_continuation")) :
                        last' = Event(u, raw, replies)
         ELSE /\ \E replies \in Direct(Msg("no_story")) :
                    last' = Event(u, raw, replies)
              /\ UNCHANGED user_story_state
    /\ UNCHANGED <<used_indices, user_game_state>>
    /\ HandlerFrame

(* lines 610-612 and handle_story_continuation, lines 755-781 *)
StoryContinuation(u, raw) ==
    /\ Route(u, raw) = "continue"
    /\ IF user_story_state[u] # NoStory
         THEN LET story == stories_list[user_story_state[u] + 1]
              IN  /\ user_story_state' = [user_story_state EXCEPT ![u] = NoStory]
                  /\ \E replies \in Direct(Msg(IF story.part2 THEN "continuation"
                                               ELSE "no_continuation")) :
                        last' = Event(u, raw, replies)
         ELSE /\ \E replies \in Direct(Msg("no_story")) :
                    last' = Event(u, raw, replies)
              /\ UNCHANGED user_story_state
    /\ UNCHANGED <<used_indices, user_game_state>>
    /\ HandlerFrame

(* lines 615-627; create_games_list_flex, lines 415-418, is None when
   games_list is empty *)
GamesList(u, raw) ==
    /\ Route(u, raw) = "games"
    /\ \E replies \in Direct(Msg(IF Len(games_list) > 0 THEN "games_list"
                                 ELSE "no_games")) :
         last' = Event(u, raw, replies)
    /\ UNCHANGED <<used_indices, user_game_state, user_story_state>>
    /\ HandlerFrame

(* handle_game_selection accepting one number more than there are games:
   the session is stored (line 787) before games_list[game_index] raises
   IndexError (line 793) *)
GameSelectionOffByOne(u, raw) ==
    LET num == IntOf(Strip(raw))
        game_index == num - 1
    IN  /\ Route(u, raw) = "selection"
        /\ IF IntRaises(Strip(raw))
             THEN /\ \E replies \in OuterHandler(<<>>) :
                        last' = Event(u, raw, replies)
                  /\ UNCHANGED user_game_state
             ELSE IF 1 <= num /\ num <= Len(games_list) + 1
             THEN /\ user_game_state' = [user_game_state EXCEPT ![u] =
                        [game_index |-> game_index, question_index |-> 0,
                         answers |-> <<>>]]
                  /\ \E replies \in
                          (IF num > Len(games_list) \/ games_list[num] = 0
                           THEN OuterHandler(<<>>)
                           ELSE Direct([Msg("first_question") EXCEPT
                                           !.index = 1,
                                           !.total = games_list[num]])) :
                        last' = Event(u, raw, replies)
             ELSE /\ \E replies \in Direct(Msg("bad_number")) :
                        last' = Event(u, raw, replies)
                  /\ UNCHANGED user_game_state
        /\ UNCHANGED <<used_indices, user_story_state>>
        /\ HandlerFrame

(* lines 630-632 and handle_game_selection, lines 783-809 *)
GameSelection(u, raw) ==
    LET num == IntOf(Strip(raw))
        game_index == num - 1
    IN  /\ Route(u, raw) = "selection"
        /\ IF IntRaises(Strip(raw))   \* line 631: ValueError
             THEN /\ \E replies \in OuterHandler(<<>>) :
                        last' = Event(u, raw, replies)
                  /\ UNCHANGED user_game_state
             ELSE IF 1 <= num /\ num <= Len(games_list)
             THEN /\ user_game_state' = [user_game_state EXCEPT ![u] =
                        [game_index |-> game_index, question_index |-> 0,
                         answers |-> <<>>]]
                  /\ \E replies \in
                          (IF games_list[num] = 0   \* line 794: IndexError
                           THEN OuterHandler(<<>>)
                           ELSE Direct([Msg("first_question") EXCEPT
                                           !.index = 1,
                                           !.total = games_list[num]])) :
                        last' = Event(u, raw, replies)
             ELSE /\ \E replies \in Direct(Msg("bad_number")) :
                        last' = Event(u, raw, replies)
                  /\ UNCHANGED user_game_state
        /\ UNCHANGED <<used_indices, user_story_state>>
        /\ HandlerFrame

(* lines 635-637 and handle_game_answer, lines 811-895 *)
GameAnswer(u, raw) ==
    LET text == Strip(raw)
        state == user_game_state[u]
        answer == NormalizeAnswer(text)
        questions == games_list[state.game_index + 1]
        advanced == [state EXCEPT !.answers = Append(@, answer),
                                  !.question_index = @ + 1]
    IN  /\ Route(u, raw) = "answer"
        /\ IF answer \in LabelSet
             THEN /\ Len(state.answers) < questions + MaxOverrun
                  /\ IF advanced.question_index < questions
                       THEN /\ \E replies \in
                                  Direct([Msg("next_question") EXCEPT
                                             !.index = advanced.question_index + 1,
                                             !.total = questions]) :
                                  last' = Event(u, raw, replies)
                            /\ user_game_state' =
                                  [user_game_state EXCEPT ![u] = advanced]
                     ELSE IF ResultRaises
                       THEN /\ \E replies \in OuterHandler(<<>>) :
                                  last' = Event(u, raw, replies)
                            /\ user_game_state' =
                                  [user_game_state EXCEPT ![u] = advanced]
                     ELSE \E replies \in
                                Direct(calculate_result(advanced.answers,
                                                        advanced.game_index)) :
                            /\ last' = Event(u, raw, replies)
                            /\ user_game_state' =
                                  [user_game_state EXCEPT ![u] =
                                      IF replies[1].ok   \* line 890
                                      THEN NoSession ELSE advanced]
             ELSE /\ \E replies \in Direct(Msg("reprompt")) :
                        last' = Event(u, raw, replies)
                  /\ UNCHANGED user_game_state
        /\ UNCHANGED <<used_indices, user_story_state>>
        /\ HandlerFrame

(* lines 640-643 *)
DefaultReply(u, raw) ==
    /\ Route(u, raw) = "default"
    /\ \E replies \in Direct(Msg("default")) :
         last' = Event(u, raw, replies)
    /\ UNCHANGED <<used_indices, user_game_state, user_story_state>>
    /\ HandlerFrame

(* handle_message, lines 587-653 *)
Next ==
    \E u \in Users, raw \in Texts :
        \/ Help(u, raw)
        \/ ContentCommand(u, raw)
        \/ StoryContinuation(u, raw)
        \/ GamesList(u, raw)
        \/ GameSelection(u, raw)
        \/ GameAnswer(u, raw)
        \/ DefaultReply(u, raw)

Spec == Init /\ [][Next]_vars

---------------------------------------------------------------------------
(* Specification ScoreSpec: calculate_result called once on an answer list  *)
(* and a game index, with detailed_results as loaded.                       *)

(* the answer lists: the three labels and one text that is no label *)
AnswerLists ==
    UNION {[1..m -> LabelSet \cup {"x"}] : m \in 0..MaxAnswers}

ScoreInit ==
    /\ content_files = [c \in TextCommands |-> <<>>]
    /\ stories_list = <<>>
    /\ poems_list = <<>>
    /\ arab_poets = <<>>
    /\ quotes_list = <<>>
    /\ games_list = <<2, 1>>
    /\ detailed_results \in ResultsFiles
    /\ used_indices = EmptyCursors
    /\ user_game_state = [u \in Users |-> NoSession]
    /\ user_story_state = [u \in Users |-> NoStory]
    /\ content_lock = NoThread
    /\ pc = [t \in Threads |-> "idle"]
    /\ local = [t \in Threads |-> IdleLocal]
    /\ detached = [u \in Users |-> NoSession]
    /\ last = NoEvent
    /\ cycle = EmptyCursors
    /\ served = EmptyCursors
    /\ history = EmptyCursors
    /\ \E answers \in AnswerLists, game_index \in 0..(Len(games_list) - 1) :
         score = [NoScore EXCEPT !.answers = answers,
                                 !.game_index = game_index]
    /\ resolve = NoResolve
    /\ user_riddle_state = NoRiddles

(* calculate_result, lines 897-913: it returns the result, or raises at
   line 906 *)
Score ==
    /\ score.result = <<>>
    /\ ~score.raised
    /\ score' = IF ResultRaises
                THEN [score EXCEPT !.raised = TRUE]
                ELSE [score EXCEPT !.result =
                        <<calculate_result(score.answers, score.game_index)>>]
    /\ UNCHANGED <<Loaded, used_indices, user_game_state, user_story_state,
                   content_lock, pc, local, detached, last, cycle, served,
                   resolve, user_riddle_state, history>>

ScoreNext == Score

ScoreSpec == ScoreInit /\ [][ScoreNext]_vars

(* C12: for every answer list, calculate_result's winner is the first
   label, in the order alef, ba, jim, whose count is the maximum count,
   and the counts it reports add up to the number of answers that are
   labels. *)
C12_TieBreakFirstMaximum ==
    score.result # <<>> =>
        LET result == score.result[1]
            answers == score.answers
            n(l) == Cardinality({i \in DOMAIN answers : answers[i] = l})
        IN  /\ \E k \in 1..3 :
                  /\ result.label = Labels[k]
                  /\ \A j \in 1..3 : n(Labels[j]) <= n(Labels[k])
                  /\ \A j \in 1..(k - 1) : n(Labels[j]) < n(Labels[k])
            /\ result.count[1] + result.count[2] + result.count[3]
                  = Cardinality({i \in DOMAIN answers :
                                    answers[i] \in {"alef", "ba", "jim"}})

(* a full tie of the three labels, won by the first *)
C12_Witness ==
    /\ score.result # <<>>
    /\ Len(score.answers) = 3
    /\ score.result[1].count = <<1, 1, 1>>
    /\ score.result[1].label = "alef"

---------------------------------------------------------------------------
(* Specification ResolveSpec: find_command called once on a text, in a     *)
(* process whose users have or have not a session and a pending story.     *)

(* the texts: every variant of COMMANDS_MAP, every word of the help,
   continue and games lists, and texts that differ from those in case,
   surrounding blanks, a missing letter or a second word *)
ResolveTexts ==
    UNION {COMMANDS_MAP[c] : c \in Commands}
    \cup HelpWords \cup ContinueWords \cup GamesWords
    \cup {" qissa ", "sual ", "HELP", "HELP ", "Game", " ", "",
          "qiss", "qissa sual", "1", "A", "x"}

ResolveInit ==
    /\ content_files = [c \in TextCommands |-> <<>>]
    /\ stories_list = Stories(1)
    /\ poems_list = <<>>
    /\ arab_poets = <<>>
    /\ quotes_list = <<>>
    /\ games_list = <<2, 1>>
    /\ detailed_results = ResultsMissing
    /\ \E used \in {<<>>, <<0>>} :
         used_indices = [EmptyCursors EXCEPT !["qissa"] = used]
    /\ \E sess \in {NoSession, [NoSession EXCEPT !.game_index = 0]} :
         user_game_state = [u \in Users |-> sess]
    /\ \E story \in {NoStory, 0} :
         user_story_state = [u \in Users |-> story]
    /\ content_lock = NoThread
    /\ pc = [t \in Threads |-> "idle"]
    /\ local = [t \in Threads |-> IdleLocal]
    /\ detached = [u \in Users |-> NoSession]
    /\ last = NoEvent
    /\ cycle = EmptyCursors
    /\ served = EmptyCursors
    /\ history = EmptyCursors
    /\ score = NoScore
    /\ \E text \in ResolveTexts : resolve = [NoResolve EXCEPT !.text = text]
    /\ user_riddle_state = NoRiddles

(* find_command, lines 190-196 *)
Resolve ==
    /\ resolve.result = <<>>
    /\ resolve' = [resolve EXCEPT !.result = <<find_command(resolve.text)>>]
    /\ UNCHANGED <<Loaded, used_indices, user_game_state, user_story_state,
                   content_lock, pc, local, detached, last, cycle, served,
                   score, user_riddle_state, history>>

ResolveNext == Resolve

ResolveSpec == ResolveInit /\ [][ResolveNext]_vars

(* C19: find_command returns category c exactly when the trimmed,
   lower-cased text is one of c's variants, and None exactly when it is a
   variant of no category; no variant belongs to two categories, none is a
   help, continue or games word; the result is that whatever the sessions,
   pending stories and cursors. *)
C19_CommandLookupUnambiguous ==
    resolve.result # <<>> =>
        LET trimmed == Strip(Lower(resolve.text))
            result == resolve.result[1]
        IN  /\ \A c \in Commands :
                  result = c <=> trimmed \in COMMANDS_MAP[c]
            /\ result = NoCommand <=>
                  \A c \in Commands : trimmed \notin COMMANDS_MAP[c]
            /\ \A c, d \in Commands :
                  c # d => COMMANDS_MAP[c] \cap COMMANDS_MAP[d] = {}
            /\ result # NoCommand =>
                  trimmed \notin HelpWords \cup ContinueWords \cup GamesWords

(* a story variant between blanks resolved, with sessions and pending
   stories in place *)
C19_Witness ==
    /\ resolve.text = " qissa "
    /\ resolve.result = <<"qissa">>
    /\ \A u \in Users : user_game_state[u] # NoSession
    /\ \A u \in Users : user_story_state[u] # NoStory

---------------------------------------------------------------------------
(* Specification RiddleSpec: the riddle flow. src/app.py has no riddle     *)
(* category; the flow is the one spec.md describes for the iterations of   *)
(* the bot that have it (sections 3 and 8): a riddle command sets the      *)
(* user's pending riddle, 'hint' shows its hint and keeps it, 'answer'     *)
(* shows its answer and clears it. Events are handled one at a time; a     *)
(* reply is sent as handle_message sends one.                              *)

(* the riddles loaded: the three of the spec's scenario *)
RiddleCount == 3

RiddleEvent(u, route, replies) ==
    [NoEvent EXCEPT !.user = u, !.text = route, !.route = route,
                    !.replies = replies]

RiddleInit ==
    /\ content_files = [c \in TextCommands |-> <<>>]
    /\ stories_list = <<>>
    /\ poems_list = <<>>
    /\ arab_poets = <<>>
    /\ quotes_list = <<>>
    /\ games_list = <<>>
    /\ detailed_results = ResultsMissing
    /\ used_indices = EmptyCursors
    /\ user_game_state = [u \in Users |-> NoSession]
    /\ user_story_state = [u \in Users |-> NoStory]
    /\ content_lock = NoThread
    /\ pc = [t \in Threads |-> "idle"]
    /\ local = [t \in Threads |-> IdleLocal]
    /\ detached = [u \in Users |-> NoSession]
    /\ last = NoEvent
    /\ cycle = EmptyCursors
    /\ served = EmptyCursors
    /\ history = EmptyCursors
    /\ AuxIdle

RiddleFrame ==
    UNCHANGED <<Loaded, used_indices, user_game_state, user_story_state,
                content_lock, pc, local, detached, cycle, served, score,
                resolve, history>>

(* fetch riddle: one of the riddles becomes the user's pending riddle *)
RiddleFetch(u) ==
    /\ \E index \in 0..(RiddleCount - 1) :
         /\ user_riddle_state' = [user_riddle_state EXCEPT ![u] = index]
         /\ \E replies \in Direct([Msg("riddle") EXCEPT !.index = index]) :
               last' = RiddleEvent(u, "riddle", replies)
    /\ RiddleFrame

(* 'hint' clearing the pending riddle as 'answer' does *)
RiddleHintClears(u) ==
    /\ IF user_riddle_state[u] # NoRiddle
         THEN /\ \E replies \in Direct([Msg("hint") EXCEPT
                                            !.index = user_riddle_state[u]]) :
                    last' = RiddleEvent(u, "hint", replies)
              /\ user_riddle_state' = [user_riddle_state EXCEPT ![u] = NoRiddle]
         ELSE /\ \E replies \in Direct(Msg("no_pending")) :
                    last' = RiddleEvent(u, "hint", replies)
              /\ UNCHANGED user_riddle_state
    /\ RiddleFrame

(* 'hint': the hint of the pending riddle, which stays pending *)
RiddleHint(u) ==
    /\ \E replies \in Direct(IF user_riddle_state[u] # NoRiddle
                              THEN [Msg("hint") EXCEPT
                                       !.index = user_riddle_state[u]]
                              ELSE Msg("no_pending")) :
         last' = RiddleEvent(u, "hint", replies)
    /\ UNCHANGED user_riddle_state
    /\ RiddleFrame

(* 'answer': the answer of the pending riddle, which is cleared *)
RiddleAnswer(u) ==
    /\ IF user_riddle_state[u] # NoRiddle
         THEN /\ \E replies \in Direct([Msg("riddle_answer") EXCEPT
                                            !.index = user_riddle_state[u]]) :
                    last' = RiddleEvent(u, "answer", replies)
              /\ user_riddle_state' = [user_riddle_state EXCEPT ![u] = NoRiddle]
         ELSE /\ \E replies \in Direct(Msg("no_pending")) :
                    last' = RiddleEvent(u, "answer", replies)
              /\ UNCHANGED user_riddle_state
    /\ RiddleFrame

RiddleNext ==
    \E u \in Users :
        \/ RiddleFetch(u)
        \/ RiddleHint(u)
        \/ RiddleAnswer(u)

RiddleSpec == RiddleInit /\ [][RiddleNext]_vars

(* C20: a fetched riddle is the user's pending riddle; 'hint' replies with
   the hint of the pending riddle and leaves it pending; 'answer' replies
   with its answer and clears it; 'answer' with nothing pending replies
   'no pending' and changes nothing. *)
C20_RiddleFlow ==
    [][LET u == last'.user
           reply == last'.replies[1]
           pending == user_riddle_state[u]
       IN  /\ last'.route = "riddle" =>
                 /\ reply.kind = "riddle"
                 /\ user_riddle_state'[u] = reply.index
                 /\ reply.index \in 0..(RiddleCount - 1)
           /\ (last'.route = "hint" /\ pending # NoRiddle) =>
                 /\ reply.kind = "hint"
                 /\ reply.index = pending
                 /\ user_riddle_state'[u] = pending
           /\ (last'.route = "answer" /\ pending # NoRiddle) =>
                 /\ reply.kind = "riddle_answer"
                 /\ reply.index = pending
                 /\ user_riddle_state'[u] = NoRiddle
           /\ (last'.route = "answer" /\ pending = NoRiddle) =>
                 /\ reply.kind = "no_pending"
                 /\ UNCHANGED user_riddle_state]_vars

(* a second 'answer': nothing is pending for the user, while the other
   user's riddle still is *)
C20_Witness ==
    /\ last.route = "answer"
    /\ last.replies = <<Msg("no_pending")>>
    /\ user_riddle_state[last.user] = NoRiddle
    /\ \E v \in Users : user_riddle_state[v] # NoRiddle

---------------------------------------------------------------------------
(* Specification RaceSpec: two request-handler threads, each handling one  *)
(* text event of the same user, statement by statement. user_game_state is *)
(* guarded by no lock. Every reply_message call returns.                   *)

(* The texts of the two events: two answers and an unrecognized text *)
RaceTexts == {"A", "jim", "x"}

(* The sessions a user can be in after a selection and some answers,
   handled one at a time *)
SessionsInProgress ==
    {[game_index |-> g - 1, question_index |-> k, answers |-> a] :
        g \in 1..2, k \in 0..1, a \in UNION {[1..m -> {"alef", "jim"}] : m \in 0..1}}

RaceIdle == [text |-> "", tmp |-> 0, result |-> Msg(""), replies |-> <<>>]

RaceInit ==
    /\ content_files = [c \in TextCommands |-> <<>>]
    /\ stories_list = <<>>
    /\ poems_list = <<>>
    /\ arab_poets = <<>>
    /\ quotes_list = <<>>
    /\ games_list = <<2, 1>>
    /\ detailed_results = [kind |-> "dict", table |-> {<<1, "alef">>, <<1, "ba">>}]
    /\ used_indices = EmptyCursors
    /\ \E u \in Users, sess \in SessionsInProgress :
         /\ sess.question_index = Len(sess.answers)
         /\ sess.question_index < games_list[sess.game_index + 1]
         /\ user_game_state = [v \in Users |-> IF v = u THEN sess ELSE NoSession]
         /\ last = [NoEvent EXCEPT !.user = u, !.pre = sess]
    /\ user_story_state = [u \in Users |-> NoStory]
    /\ content_lock = NoThread
    /\ pc = [t \in Threads |-> "idle"]
    /\ local = [t \in Threads |-> RaceIdle]
    /\ detached = [u \in Users |-> NoSession]
    /\ cycle = EmptyCursors
    /\ served = EmptyCursors
    /\ history = EmptyCursors
    /\ AuxIdle

RaceFrame == UNCHANGED <<Loaded, used_indices, user_story_state, content_lock,
                         last, cycle, served, score, resolve,
                         user_riddle_state, history>>

(* the session dict the threads' `state` refers to: the one in the map,
   or the one a thread has already deleted from it *)
StateDict(u) ==
    IF user_game_state[u] # NoSession THEN user_game_state[u] ELSE detached[u]

(* a reply_message call that ends the handling of the event *)
ReplyAndFinish(t, msg) ==
    /\ local' = [local EXCEPT ![t].replies = Append(@, msg)]
    /\ pc' = [pc EXCEPT ![t] = "done"]

(* a store into the dict `state` refers to *)
Store(u, new) ==
    IF user_game_state[u] # NoSession
    THEN /\ user_game_state' = [user_game_state EXCEPT ![u] = new]
         /\ UNCHANGED detached
    ELSE /\ detached' = [detached EXCEPT ![u] = new]
         /\ UNCHANGED user_game_state

(* lines 588-632: an event whose text is no command and no digit *)
Receive(t, raw) ==
    /\ pc[t] = "idle"
    /\ Route(last.user, raw) \in {"answer", "default"}
    /\ local' = [local EXCEPT ![t].text = raw]
    /\ pc' = [pc EXCEPT ![t] = "l635"]
    /\ UNCHANGED <<user_game_state, detached>>
    /\ RaceFrame

(* line 635: if user_id in user_game_state; lines 640-643 otherwise *)
TestSession(t) ==
    /\ pc[t] = "l635"
    /\ IF HasSession(last.user)
         THEN /\ pc' = [pc EXCEPT ![t] = "l813"]
              /\ UNCHANGED local
         ELSE ReplyAndFinish(t, Msg("default"))
    /\ UNCHANGED <<user_game_state, detached>>
    /\ RaceFrame

(* lines 813-817: state = user_game_state[user_id] raises KeyError when
   the entry is gone (answered by handle_message's handler); an
   unrecognized answer is re-prompted, lines 892-895 *)
LoadState(t) ==
    /\ pc[t] = "l813"
    /\ IF ~HasSession(last.user)
         THEN ReplyAndFinish(t, Msg("error"))
         ELSE IF NormalizeAnswer(Strip(local[t].text)) \in LabelSet
           THEN /\ pc' = [pc EXCEPT ![t] = "l818"]
                /\ UNCHANGED local
           ELSE ReplyAndFinish(t, Msg("reprompt"))
    /\ UNCHANGED <<user_game_state, detached>>
    /\ RaceFrame

(* line 818: state["answers"].append(answer) *)
AppendAnswer(t) ==
    /\ pc[t] = "l818"
    /\ Store(last.user, [StateDict(last.user) EXCEPT !.answers =
            Append(@, NormalizeAnswer(Strip(local[t].text)))])
    /\ pc' = [pc EXCEPT ![t] = "l820"]
    /\ UNCHANGED local
    /\ RaceFrame

(* line 820, the load of state["question_index"] += 1 *)
LoadIndex(t) ==
    /\ pc[t] = "l820"
    /\ local' = [local EXCEPT ![t].tmp = StateDict(last.user).question_index]
    /\ pc' = [pc EXCEPT ![t] = "l820s"]
    /\ UNCHANGED <<user_game_state, detached>>
    /\ RaceFrame

(* line 820, the store of state["question_index"] += 1 *)
StoreIndex(t) ==
    /\ pc[t] = "l820s"
    /\ Store(last.user, [StateDict(last.user) EXCEPT
                            !.question_index = local[t].tmp + 1])
    /\ pc' = [pc EXCEPT ![t] = "l822"]
    /\ UNCHANGED local
    /\ RaceFrame

(* line 822: if state["question_index"] < len(game["questions"]) *)
TestRemaining(t) ==
    LET state == StateDict(last.user)
    IN  /\ pc[t] = "l822"
        /\ pc' = [pc EXCEPT ![t] =
                    IF state.question_index < games_list[state.game_index + 1]
                    THEN "l823" ELSE "l835"]
        /\ UNCHANGED <<user_game_state, detached, local>>
        /\ RaceFrame

(* lines 823-833: game["questions"][state["question_index"]] raises
   IndexError when the index has meanwhile passed the last question *)
NextQuestion(t) ==
    LET state == StateDict(last.user)
        questions == games_list[state.game_index + 1]
    IN  /\ pc[t] = "l823"
        /\ IF state.question_index >= questions
             THEN ReplyAndFinish(t, Msg("error"))
             ELSE ReplyAndFinish(t, [Msg("next_question") EXCEPT
                                        !.index = state.question_index + 1,
                                        !.total = questions])
        /\ UNCHANGED <<user_game_state, detached>>
        /\ RaceFrame

(* lines 835-889: the result is computed and sent *)
SendResult(t) ==
    LET state == StateDict(last.user)
    IN  /\ pc[t] = "l835"
        /\ local' = [local EXCEPT ![t].replies =
                        Append(@, calculate_result(state.answers, state.game_index))]
        /\ pc' = [pc EXCEPT ![t] = "l890"]
        /\ UNCHANGED <<user_game_state, detached>>
        /\ RaceFrame

(* line 890: del user_game_state[user_id] raises KeyError when the entry
   is gone; handle_message's handler then replies once more *)
DeleteSession(t) ==
    /\ pc[t] = "l890"
    /\ IF HasSession(last.user)
         THEN /\ detached' = [detached EXCEPT ![last.user] = user_game_state[last.user]]
              /\ user_game_state' = [user_game_state EXCEPT ![last.user] = NoSession]
              /\ pc' = [pc EXCEPT ![t] = "done"]
              /\ UNCHANGED local
         ELSE /\ ReplyAndFinish(t, Msg("error"))
              /\ UNCHANGED <<user_game_state, detached>>
    /\ RaceFrame

RaceNext ==
    \E t \in Threads :
        \/ \E raw \in RaceTexts : Receive(t, raw)
        \/ TestSession(t)
        \/ LoadState(t)
        \/ AppendAnswer(t)
        \/ LoadIndex(t)
        \/ StoreIndex(t)
        \/ TestRemaining(t)
        \/ NextQuestion(t)
        \/ SendResult(t)
        \/ DeleteSession(t)

RaceSpec == RaceInit /\ [][RaceNext]_vars

(* handle_message for such an event, run to completion with its reply
   delivered: lines 635-643 and handle_game_answer, lines 811-895 *)
SerialAnswer(sess, raw) ==
    LET answer == NormalizeAnswer(Strip(raw))
        questions == games_list[sess.game_index + 1]
        advanced == [sess EXCEPT !.answers = Append(@, answer),
                                 !.question_index = @ + 1]
    IN  IF sess = NoSession
          THEN [session |-> sess, replies |-> <<Msg("default")>>]
        ELSE IF answer \notin LabelSet
          THEN [session |-> sess, replies |-> <<Msg("reprompt")>>]
        ELSE IF advanced.question_index < questions
          THEN [session |-> advanced,
                replies |-> <<[Msg("next_question") EXCEPT
                                  !.index = advanced.question_index + 1,
                                  !.total = questions]>>]
        ELSE IF ResultRaises
          THEN [session |-> advanced, replies |-> <<Msg("error")>>]
        ELSE [session |-> NoSession,
              replies |-> <<calculate_result(advanced.answers,
                                             advanced.game_index)>>]

(* C8: when two answer events of one user are handled concurrently, the
   session that results and the two replies are those of handling the two
   events one after the other, in one of the two orders. *)
C8_ConcurrentAnswersSerializable ==
    (\A t \in Threads : pc[t] = "done") =>
        \E first, second \in Threads :
            /\ first # second
            /\ LET r1 == SerialAnswer(last.pre, local[first].text)
                   r2 == SerialAnswer(r1.session, local[second].text)
               IN  /\ local[first].replies = r1.replies
                   /\ local[second].replies = r2.replies
                   /\ user_game_state[last.user] = r2.session

---------------------------------------------------------------------------
(* Properties of message handling, checked under Spec *)

(* an event has been handled *)
Acted == last.user # ""

(* the text is one answer_map or the label list accepts as an answer *)
IsLabelText(raw) == NormalizeAnswer(Strip(raw)) \in LabelSet

(* the text is none of the help, content, continue or games words *)
IsQuizText(raw) == TextRoutes[raw] \in {"selection", "text"}

(* the session a recognized answer leaves behind when questions remain *)
Recorded(pre, raw) ==
    [pre EXCEPT !.answers = Append(@, NormalizeAnswer(Strip(raw))),
                !.question_index = @ + 1]

(* C2: a bare digit from a user with a session in progress is handled as
   a game answer; a digit that maps to a label is recorded as that label
   (the session advances, or completes); a text is handled as a game
   selection only when the user has no session. *)
C2_DigitIsAnswerInSession ==
    /\ (Acted /\ IsDigit(Strip(last.text)) /\ last.pre # NoSession) =>
          /\ last.route = "answer"
          /\ IsLabelText(last.text) =>
                user_game_state[last.user] \in
                    {NoSession, Recorded(last.pre, last.text)}
    /\ (Acted /\ last.route = "selection") => last.pre = NoSession

(* C3: the recognized answer that follows a selection and N-1 recognized
   answers (N the quiz's number of questions) leaves the user without a
   session; and a further answer text (one that is no game number) from a
   user without a session creates no session and produces no question and
   no result. *)
C3_SessionLifecycle ==
    /\ (/\ Acted
        /\ last.pre # NoSession
        /\ IsQuizText(last.text)
        /\ IsLabelText(last.text)
        /\ last.pre.question_index = games_list[last.pre.game_index + 1] - 1
        /\ Len(last.pre.answers) = last.pre.question_index)
          => user_game_state[last.user] = NoSession
    /\ (/\ Acted
        /\ last.pre = NoSession
        /\ IsLabelText(last.text)
        /\ ~IsDigit(Strip(last.text)))
          => /\ user_game_state[last.user] = NoSession
             /\ \A i \in 1..Len(last.replies) :
                   last.replies[i].kind \notin
                       {"first_question", "next_question", "result"}

(* C4: a game selection received while the user has a session in progress
   leaves the session (quiz index, question index, answers) unchanged. *)
C4_ReselectionKeepsSession ==
    (Acted /\ last.route = "selection" /\ last.pre # NoSession) =>
        user_game_state[last.user] = last.pre

(* C5: when the answer that finishes a quiz is handled and the result
   table has no entry for the quiz and its winning label (the table's file
   missing or unreadable included), the result is computed without
   failure: the reply is the generic fallback text with the winning label,
   and once it is sent the session is gone. *)
C5_FallbackResult ==
    LET answers == Append(last.pre.answers, NormalizeAnswer(Strip(last.text)))
    IN  (/\ Acted
         /\ last.route = "answer"
         /\ IsLabelText(last.text)
         /\ last.pre.question_index + 1 >= games_list[last.pre.game_index + 1]
         /\ <<last.pre.game_index + 1, MostCommon(answers)>>
                \notin detailed_results.table)
          => /\ last.replies[1].kind = "result"
             /\ last.replies[1].fallback
             /\ last.replies[1].label = MostCommon(answers)
             /\ last.replies[1].ok => user_game_state[last.user] = NoSession

(* C7, as claimed: every handled event calls reply_message exactly once. *)
C7_ExactlyOneReply ==
    Acted => Len(last.replies) = 1

(* C7, amended: every handled event calls reply_message at least once and
   at most three times, and each call after the first follows a call that
   raised: at most one call returns, and exactly one call is made when
   none raises. *)
C7_OneReplyUnlessRaised ==
    Acted =>
        /\ Len(last.replies) \in 1..3
        /\ \A i \in 2..Len(last.replies) : ~last.replies[i - 1].ok

(* a content command whose reply raised, whose error reply raised too, and
   which handle_message's handler answered with a third call *)
C7_Witness ==
    /\ Acted
    /\ last.route = "content"
    /\ Len(last.replies) = 3
    /\ last.replies[3].kind = "error"

(* C10: a text that is no command and does not normalize to a label,
   received while a session is in progress, is answered with the re-prompt
   and leaves the session unchanged. *)
C10_UnrecognizedAnswerRejected ==
    (/\ Acted
     /\ last.pre # NoSession
     /\ IsQuizText(last.text)
     /\ ~IsLabelText(last.text))
      => /\ last.replies[1].kind = "reprompt"
         /\ user_game_state[last.user] = last.pre

(* C11: a recognized label received while a session is in progress appends
   exactly that label to the answers and raises the question index by one;
   when questions remain, the reply is the question at the new index with
   the progress (new index + 1)/(number of questions). *)
C11_RecognizedAnswerAdvances ==
    (/\ Acted
     /\ last.pre # NoSession
     /\ IsQuizText(last.text)
     /\ IsLabelText(last.text))
      => LET recorded == Recorded(last.pre, last.text)
             questions == games_list[last.pre.game_index + 1]
         IN  IF recorded.question_index < questions
             THEN /\ user_game_state[last.user] = recorded
                  /\ last.replies[1].kind = "next_question"
                  /\ last.replies[1].index = recorded.question_index + 1
                  /\ last.replies[1].total = questions
             ELSE user_game_state[last.user] \in {NoSession, recorded}

(* C13: handling an event of user u leaves the quiz session and the
   pending story of every other user unchanged, and what u is answered
   follows from u's own session and pending story: an answer or default
   route from whether u has a session, the next question's progress from
   u's session, the continuation reply from u's pending story. *)
C13_NoLeakAcrossUsers ==
    [][LET u == last'.user
           reply == last'.replies[1]
       IN  /\ \A v \in Users \ {u} :
                 /\ user_game_state'[v] = user_game_state[v]
                 /\ user_story_state'[v] = user_story_state[v]
           /\ last'.route \in {"answer", "default"} =>
                 (last'.route = "answer" <=> user_game_state[u] # NoSession)
           /\ reply.kind = "next_question" =>
                 /\ reply.index = user_game_state[u].question_index + 2
                 /\ reply.total = games_list[user_game_state[u].game_index + 1]
           /\ last'.route = "continue" =>
                 reply.kind =
                    IF user_story_state[u] = NoStory THEN "no_story"
                    ELSE IF stories_list[user_story_state[u] + 1].part2
                      THEN "continuation"
                    ELSE "no_continuation"]_vars

(* one user continues a story while the other has a pending story and a
   session with an answer recorded *)
C13_Witness ==
    /\ Acted
    /\ last.route = "continue"
    /\ last.replies[1].kind = "continuation"
    /\ \E v \in Users \ {last.user} :
          /\ user_story_state[v] # NoStory
          /\ Len(user_game_state[v].answers) = 1

(* C14: no failure of a step of handling an event escapes handle_message.
   A reply_message call that raises is followed by the attempt of an error
   message (the content error of handle_content_command's except clause,
   or handle_message's retry message), the only call that may raise last
   is that retry message, whose failure is swallowed; a result that cannot
   be computed is answered with the retry message; and after every event
   the next event can be handled. *)
C14_NoFailureEscapes ==
    Acted =>
        /\ \A i \in 1..Len(last.replies) :
              ~last.replies[i].ok =>
                  IF i < Len(last.replies)
                  THEN last.replies[i + 1].kind \in {"content_error", "error"}
                  ELSE last.replies[i].kind = "error"
        /\ (/\ last.route = "answer"
            /\ IsLabelText(last.text)
            /\ last.pre.question_index + 1 >= games_list[last.pre.game_index + 1]
            /\ detailed_results.kind # "dict")
              => last.replies[1].kind = "error"
        /\ ENABLED Next

(* the result reply of a finished quiz raised, and the retry message
   raised too *)
C14_Witness ==
    /\ Acted
    /\ last.route = "answer"
    /\ Len(last.replies) = 2
    /\ last.replies[1].kind = "result"
    /\ ~last.replies[1].ok
    /\ last.replies[2].kind = "error"
    /\ ~last.replies[2].ok

(* C15: a missing or unreadable source is loaded as an empty collection of
   the shape its consumer expects; the result table, which
   calculate_result reads with .get, as an empty mapping. *)
C15_DegradesToExpectedShape ==
    /\ \A file \in UnusableFiles :
          load_json_file("detailed_results.json", file).kind = "dict"
    /\ detailed_results.table = {} => detailed_results.kind = "dict"

(* C16: a content command for a category that has no items is answered
   with the 'not available' reply, and with that reply alone when it is
   delivered; the sampler is not called (no usage cursor changes) and no
   pending story is set. *)
C16_EmptyCategoryNotAvailable ==
    [][(/\ last'.route = "content"
        /\ Len(ListOf(CommandOf[last'.text])) = 0)
         => /\ last'.replies[1].kind = "na"
            /\ last'.replies[1].ok => Len(last'.replies) = 1
            /\ UNCHANGED <<used_indices, cycle, served>>
            /\ UNCHANGED <<user_story_state, user_game_state>>]_vars

(* a story asked for with no stories loaded *)
C16_Witness ==
    /\ Acted
    /\ last.route = "content"
    /\ CommandOf[last.text] = "qissa"
    /\ stories_list = <<>>
    /\ last.replies = <<Msg("na")>>
    /\ user_story_state[last.user] = NoStory

(* C17: a story command with stories loaded makes the story it replies
   with the user's one pending story, whatever was pending before; a
   continue command with a story pending removes it, and replies with the
   continuation or, the story having no second part, that there is none; a
   continue command with nothing pending replies 'no story started' and
   changes no state. *)
C17_PendingStoryLifecycle ==
    [][LET u == last'.user
           reply == last'.replies[1]
       IN  /\ (/\ last'.route = "content"
                /\ CommandOf[last'.text] = "qissa"
                /\ stories_list # <<>>)
                 => /\ reply.kind = "story"
                    /\ reply.index \in 0..(Len(stories_list) - 1)
                    /\ user_story_state'[u] = reply.index
           /\ (last'.route = "continue" /\ user_story_state[u] # NoStory)
                 => /\ user_story_state'[u] = NoStory
                    /\ reply.kind \in {"continuation", "no_continuation"}
                    /\ reply.kind = "continuation" <=>
                          stories_list[user_story_state[u] + 1].part2
           /\ (last'.route = "continue" /\ user_story_state[u] = NoStory)
                 => /\ reply.kind = "no_story"
                    /\ UNCHANGED <<user_story_state, user_game_state,
                                   used_indices>>]_vars

(* a continue with nothing pending, after both stories were fetched and
   while the other user's story is still pending *)
C17_Witness ==
    /\ Acted
    /\ last.route = "continue"
    /\ last.replies = <<Msg("no_story")>>
    /\ user_story_state[last.user] = NoStory
    /\ Len(used_indices["qissa"]) = 2
    /\ \E v \in Users : user_story_state[v] # NoStory

(* C18: a game number outside 1..len(games_list) is answered with the
   invalid-number reply, and with that reply alone when it is delivered;
   it creates no session for a user without one and leaves an existing
   session, and all other state, unchanged. *)
C18_InvalidNumberNoEffect ==
    [][(/\ last'.route = "selection"
        /\ ~IntRaises(Strip(last'.text))
        /\ IntOf(Strip(last'.text)) \notin 1..Len(games_list))
         => /\ last'.replies[1].kind = "bad_number"
            /\ last'.replies[1].ok => Len(last'.replies) = 1
            /\ UNCHANGED <<user_game_state, user_story_state,
                           used_indices>>]_vars

(* the number 9 sent by a user whose session has an answer recorded *)
C18_Witness ==
    /\ Acted
    /\ last.text = "9"
    /\ Len(last.pre.answers) = 1
    /\ user_game_state[last.user] = last.pre
    /\ last.replies = <<Msg("bad_number")>>

(* the same recognized answer text of the same user handled twice in a
   row, the first time with a session in progress *)
DuplicateAnswer ==
    /\ last.user # ""
    /\ last'.user = last.user
    /\ last'.text = last.text
    /\ IsQuizText(last.text)
    /\ IsLabelText(last.text)
    /\ last.pre # NoSession

(* C23, as claimed: the same recognized answer handled twice for a user
   with a session in progress appends the label twice and advances the
   question index by two, or completes the quiz one question early. *)
C23_DuplicateCountsTwice ==
    [][DuplicateAnswer =>
          /\ last'.route = "answer"
          /\ last'.pre = Recorded(last.pre, last.text)
          /\ user_game_state'[last.user] \in
                {Recorded(last'.pre, last.text), NoSession}]_vars

(* C23, for the recognized texts that reach handle_game_answer (those
   that are not digits): when the session is still stored after the first
   handling, the second appends the label again and advances the index
   again (by two in all), completing the quiz one question early when two
   questions were left, and the result counts the label twice; when the
   first handling completed the quiz and deleted the session, the second
   finds no session, is answered with the default reply and records
   nothing. *)
C23_DuplicateCountsTwiceWhileStored ==
    [][(DuplicateAnswer /\ last.route = "answer") =>
          LET u == last.user
              stored == user_game_state[u]
              questions == games_list[last.pre.game_index + 1]
          IN  IF stored # NoSession
              THEN /\ stored = Recorded(last.pre, last.text)
                   /\ last'.route = "answer"
                   /\ user_game_state'[u] \in
                         {Recorded(stored, last.text), NoSession}
                   /\ Len(stored.answers) + 1 < questions =>
                         user_game_state'[u] = Recorded(stored, last.text)
                   /\ user_game_state'[u] = NoSession =>
                         /\ last'.replies[1].kind = "result"
                         /\ last'.replies[1].count[1] + last'.replies[1].count[2]
                               + last'.replies[1].count[3]
                               = Len(last.pre.answers) + 2
              ELSE /\ last.pre.question_index + 1 >= questions
                   /\ last'.route = "default"
                   /\ last'.replies[1].kind = "default"
                   /\ user_game_state'[u] = NoSession]_vars

(* C25: between handled events every stored session has as many recorded
   answers as its question index, and that index is at least 0 and less
   than the number of questions of its quiz. *)
C25_SessionInvariant ==
    \A u \in Users :
        user_game_state[u] # NoSession =>
            /\ user_game_state[u].question_index = Len(user_game_state[u].answers)
            /\ 0 <= user_game_state[u].question_index
            /\ user_game_state[u].question_index
                  < games_list[user_game_state[u].game_index + 1]

(* C26: a help request, a content command, a story continuation or a
   games-list request leaves every quiz session as it was, also the
   session in progress of the user who sent it; the sampler call of a
   content command changes the cursor of its own category only, and the
   other three kinds of event change no cursor. *)
C26_NonQuizFrame ==
    [][last'.route \in {"help", "content", "continue", "games"} =>
          /\ user_game_state' = user_game_state
          /\ \A c \in Commands :
                (last'.route # "content" \/ c # CommandOf[last'.text]) =>
                    used_indices'[c] = used_indices[c]]_vars

(* a story served to a user whose quiz is in progress, with the cursor of
   the stories advanced and the session as it was before the event *)
C26_Witness ==
    /\ Acted
    /\ last.route = "content"
    /\ last.pre # NoSession
    /\ last.replies[1].kind = "story"
    /\ used_indices["qissa"] # <<>>
    /\ user_game_state[last.user] = last.pre

============================================================================
